---- MODULE Spec2Model ----
(***************************************************************************)
(* webp-conv (src/index.js): the batch driver main(), its polling          *)
(* admission gate waitForTruth(), the per-file cwebp subprocess handlers   *)
(* and the stderr classifier hack_IsErrorAnError().                        *)
(*                                                                         *)
(* JavaScript strings are sequences of one-character strings; the value    *)
(* `undefined` is the one-element sequence Undefined, which no string      *)
(* equals.  One action is one synchronous run of JavaScript: the body of   *)
(* main() up to its Promise.all, one Promise executor of the map, one      *)
(* event handler, or one promise continuation (microtask).                 *)
(***************************************************************************)
EXTENDS Integers, Sequences, FiniteSets, TLC

\* ----------------------------------------------------------------- bounds
\* Most files a directory listing yields.
MaxItems == 5
\* Longest text given to the classifier when it is checked on its own.
MaxTextLen == 3
\* Longest generated file name given to the filter when it is checked on its own.
MaxNameLen == 3

\* ------------------------------------------------------ program constants
MAX_CONCURRENT_FILES == 3

Fixed(s) == [kind |-> "fixed", text |-> s, file |-> 0]

BASE_WEBP_SETTINGS ==
    << Fixed("-mt"), Fixed("-q 50"), Fixed("-pass 10"), Fixed("-m 6"),
       Fixed("-alpha_filter best"), Fixed("-short"), Fixed("-af") >>

\* `-o "${outputDirectory + e + ".webp"}"` and `"${inputDirectory + e}"`
OutputArg(e) == [kind |-> "output", text |-> "-o", file |-> e]
InputArg(e) == [kind |-> "input", text |-> "", file |-> e]

\* ------------------------------------------------------------ JS strings
Undefined == << "undefined" >>

Digits == {"0", "1", "2", "3", "4", "5", "6", "7", "8", "9"}

Str_CannotOpen ==
    << "C","a","n","n","o","t"," ","o","p","e","n"," ",
       "i","n","p","u","t"," ","f","i","l","e" >>
Str_Psnr == << "P","S","N","R",":"," ","4","2",".","5"," " >>

\* Exit codes a cwebp process closes with.
ExitCodes == {0, 1}

\* Chunks a cwebp process writes to stderr.
StderrChunks == {Str_CannotOpen, Str_Psnr}

\* String.prototype.trim over the characters the model has.
RECURSIVE TrimLeft(_)
TrimLeft(s) == IF s # << >> /\ Head(s) = " " THEN TrimLeft(Tail(s)) ELSE s

RECURSIVE TrimRight(_)
TrimRight(s) ==
    IF s # << >> /\ s[Len(s)] = " " THEN TrimRight(SubSeq(s, 1, Len(s) - 1)) ELSE s

Trim(s) == TrimRight(TrimLeft(s))

\* String.prototype.split(" "): every single space separates two tokens, so
\* "" gives [""] and a trailing space gives a last token "".
RECURSIVE SplitFrom(_, _, _)
SplitFrom(s, cur, acc) ==
    IF s = << >> THEN Append(acc, cur)
    ELSE IF Head(s) = " " THEN SplitFrom(Tail(s), << >>, Append(acc, cur))
    ELSE SplitFrom(Tail(s), Append(cur, Head(s)), acc)

Split(s) == SplitFrom(s, << >>, << >>)

\* String.prototype.indexOf(c) !== -1
Contains(s, c) == \E k \in 1..Len(s) : s[k] = c

StartsWith(s, p) == Len(s) >= Len(p) /\ SubSeq(s, 1, Len(p)) = p

\* !isNaN(parseFloat(s)): parseFloat skips leading white space, takes an
\* optional sign and then the longest prefix that is a decimal literal; it is
\* NaN only when no prefix is one.
ParseFloatIsNumber(s) ==
    LET t == TrimLeft(s)
        u == IF t # << >> /\ Head(t) \in {"+", "-"} THEN Tail(t) ELSE t
    IN  \/ (u # << >> /\ u[1] \in Digits)
        \/ (Len(u) >= 2 /\ u[1] = "." /\ u[2] \in Digits)
        \/ StartsWith(u, << "I","n","f","i","n","i","t","y" >>)

\* A JavaScript value used as a condition.
Truthy(v) == v # Undefined /\ v # << >>


\* ------------------------------------------------------------ classifier
\* hack_IsErrorAnError(err).  The results are the JavaScript values false
\* and true and, when the function ends without a return, undefined.  The
\* try block cannot throw (errStrToCheck is always a string), so the catch
\* block's `return true` is never taken.
hack_IsErrorAnError_ReturnsTrue(err) ==
    LET errSplit == IF err # Undefined THEN Split(err) ELSE << << >> >>
        errStrToCheck == errSplit[Len(errSplit)]
    IN  IF Contains(errStrToCheck, ".") /\ ParseFloatIsNumber(errStrToCheck)
        THEN "false" ELSE "true"

hack_IsErrorAnError(err) ==
    LET errSplit == IF err # Undefined THEN Split(err) ELSE << << >> >>
        errStrToCheck == errSplit[Len(errSplit)]
        isADecimal == Contains(errStrToCheck, ".")
        isValidFloat == ParseFloatIsNumber(errStrToCheck)
    IN  IF isADecimal /\ isValidFloat THEN "false" ELSE "undefined"

\* The argument list of the call in the stderr handler,
\* `hack_IsErrorAnError()`: the handler's err is not passed.
ClassifierArgument(err) == Undefined

\* ------------------------------------------------------------ the filter
COMPATIBLE_FILE_EXTS ==
    << << "p","n","g" >>, << "j","p","g" >>, << "j","p","e","g" >> >>

UpperCase ==
    << "A","B","C","D","E","F","G","H","I","J","K","L","M",
       "N","O","P","Q","R","S","T","U","V","W","X","Y","Z" >>

LowerCase ==
    << "a","b","c","d","e","f","g","h","i","j","k","l","m",
       "n","o","p","q","r","s","t","u","v","w","x","y","z" >>

\* String.prototype.toLowerCase
ToLowerCase(s) ==
    [k \in 1..Len(s) |->
        IF \E u \in 1..Len(UpperCase) : UpperCase[u] = s[k]
        THEN LowerCase[CHOOSE u \in 1..Len(UpperCase) : UpperCase[u] = s[k]]
        ELSE s[k]]

\* String.prototype.lastIndexOf(c), as a 0-based index, -1 when c is absent
LastIndexOf(s, c) ==
    IF \E k \in 1..Len(s) : s[k] = c
    THEN (CHOOSE k \in 1..Len(s) : s[k] = c /\ \A m \in (k + 1)..Len(s) : s[m] # c) - 1
    ELSE -1

\* String.prototype.substr(from) for 0 <= from: the rest of s from 0-based from
Substr(s, from) == SubSeq(s, from + 1, Len(s))

\* String.prototype.indexOf(t) !== -1: t occurs in s ("" occurs in every s)
IndexOfFound(s, t) ==
    \E k \in 0..(Len(s) - Len(t)) : SubSeq(s, k + 1, k + Len(t)) = t

\* The callback given to filter() for the entry e
IsCompatible(e) ==
    LET eExt == Substr(ToLowerCase(e), LastIndexOf(e, ".") + 1)
    IN  \E x \in 1..Len(COMPATIBLE_FILE_EXTS) :
            IndexOfFound(COMPATIBLE_FILE_EXTS[x], eExt)

\* fs.readdirSync(inputDirectory).filter(...)
FilterCompatible(entries) == SelectSeq(entries, IsCompatible)

\* const inputFiles before the filter has run
NotEnumerated == << Undefined >>

\* ----------------------------------------------------------------- state
VARIABLES
    env,            \* the invocation: flags, what exists on disk, the listing
    legacyTimers,   \* the runtime runs a whole timer list before microtasks
    mainPc,         \* where main() and its returned promise are
    testMode,       \* let testMode
    inputFiles,     \* const inputFiles, as the number of compatible entries
    nextFile,       \* the next index inputFiles.map() calls its callback on
    concurrency,    \* let concurrency
    pc,             \* per file: where its Promise executor is
    microtasks,     \* continuations of `await waitForTruth(...)`, in order
    draining,       \* the microtask queue is being run
    cwebpArgs,      \* the array object BASE_WEBP_SETTINGS and cwebpArgs name
    procArgs,       \* per file: the arguments its process was spawned with
    reported,       \* per file: the arguments its resolve wrapper was called with
    lastEvent,      \* the last 'close' or stderr 'data' event a handler received
    spawnCount,     \* per file: how often spawn() was called for it
    slotTaken,      \* per file: how often its executor ran concurrency++
    slotFreed,      \* per file: how often its handlers ran concurrency--
    classifierArg,  \* the classifier on its own: the argument it is called with
    classifierRet,  \* the classifier on its own: what the call returned
    dirEntries,     \* the filter on its own: what readdirSync returned
    enumerated      \* the filter on its own: what filter() returned

vars == << env, legacyTimers, mainPc, testMode, inputFiles, nextFile, concurrency,
           pc, microtasks, draining, cwebpArgs, procArgs, reported, lastEvent,
           spawnCount, slotTaken, slotFreed, classifierArg, classifierRet,
           dirEntries, enumerated >>

countVars == << spawnCount, slotTaken, slotFreed >>

enumVars == << dirEntries, enumerated >>

Files == 1..MaxItems

\* A stderr 'data' event of file e with its trimmed text, and a 'close' event
\* of file e with its exit code and, when the event before it was stderr text
\* of the same file, that text.
StderrEvent(e, t) == [kind |-> "stderr", file |-> e, code |-> 0, text |-> t]

CloseEvent(e, c, t) == [kind |-> "close", file |-> e, code |-> c, text |-> t]

NoEvent == [kind |-> "none", file |-> 0, code |-> 0, text |-> Undefined]

TextBefore(e, ev) == IF ev.kind = "stderr" /\ ev.file = e THEN ev.text ELSE Undefined

\* The number after a -c flag in process.argv, 0 when the flag is not given.
ConcurrencyFlags == {0, 2}

Envs ==
    [ h : BOOLEAN, t : BOOLEAN, c : ConcurrencyFlags, inputExists : BOOLEAN,
      outputExists : BOOLEAN, cwebpExists : BOOLEAN, compatible : 0..MaxItems ]

\* The module-level state before main() is called.
Init ==
    /\ env \in Envs
    /\ legacyTimers \in BOOLEAN
    /\ mainPc = "start"
    /\ testMode = FALSE
    /\ inputFiles = 0
    /\ nextFile = 1
    /\ concurrency = 0
    /\ pc = [e \in Files |-> "new"]
    /\ microtasks = << >>
    /\ draining = FALSE
    /\ cwebpArgs = BASE_WEBP_SETTINGS
    /\ procArgs = [e \in Files |-> << >>]
    /\ reported = [e \in Files |-> << >>]
    /\ lastEvent = NoEvent
    /\ spawnCount = [e \in Files |-> 0]
    /\ slotTaken = [e \in Files |-> 0]
    /\ slotFreed = [e \in Files |-> 0]
    /\ classifierArg = Undefined
    /\ classifierRet = "pending"
    /\ dirEntries = << >>
    /\ enumerated = NotEnumerated

\* ------------------------------------------------------------------ main
MainSetup_NoExistenceCheck ==
    /\ mainPc = "start"
    /\ IF env.h
       THEN /\ mainPc' = "returned"
            /\ UNCHANGED << testMode, inputFiles >>
       ELSE /\ testMode' = env.t
            /\ mainPc' = "map"
            /\ inputFiles' = env.compatible
    /\ UNCHANGED << env, legacyTimers, nextFile, concurrency, pc, microtasks,
                    draining, cwebpArgs, procArgs, reported, lastEvent,
                    classifierArg, classifierRet,
                    countVars, enumVars >>

\* main() from its first line to `let concurrency = 0`: the help flag and a
\* missing directory or executable make it return, else it reads the flags
\* and the listing.
MainSetup ==
    /\ mainPc = "start"
    /\ IF env.h
       THEN /\ mainPc' = "returned"
            /\ UNCHANGED << testMode, inputFiles >>
       ELSE /\ testMode' = env.t
            /\ IF ~env.inputExists \/ ~env.outputExists \/ ~env.cwebpExists
               THEN /\ mainPc' = "returned"
                    /\ UNCHANGED inputFiles
               ELSE /\ mainPc' = "map"
                    /\ inputFiles' = env.compatible
    /\ UNCHANGED << env, legacyTimers, nextFile, concurrency, pc, microtasks,
                    draining, cwebpArgs, procArgs, reported, lastEvent,
                    classifierArg, classifierRet,
                    countVars, enumVars >>

\* The resolve wrapper of file e, called with err: it logs one report (with
\* warnings when err is truthy) and calls _resolve.
Resolve(e, err) == reported' = [reported EXCEPT ![e] = Append(@, err)]

Dispatch_NoAcquire(e) ==
    IF ~testMode
    THEN /\ cwebpArgs' = Append(Append(cwebpArgs, OutputArg(e)), InputArg(e))
         /\ procArgs' = [procArgs EXCEPT ![e] = cwebpArgs']
         /\ spawnCount' = [spawnCount EXCEPT ![e] = @ + 1]
         /\ pc' = [pc EXCEPT ![e] = "running"]
         /\ UNCHANGED << concurrency, reported, slotTaken, slotFreed >>
    ELSE /\ Resolve(e, Undefined)
         /\ pc' = [pc EXCEPT ![e] = "done"]
         /\ UNCHANGED << concurrency, cwebpArgs, procArgs, countVars >>

Dispatch_IgnoresTestMode(e) ==
    /\ concurrency' = concurrency + 1
    /\ slotTaken' = [slotTaken EXCEPT ![e] = @ + 1]
    /\ cwebpArgs' = Append(Append(cwebpArgs, OutputArg(e)), InputArg(e))
    /\ procArgs' = [procArgs EXCEPT ![e] = cwebpArgs']
    /\ spawnCount' = [spawnCount EXCEPT ![e] = @ + 1]
    /\ pc' = [pc EXCEPT ![e] = "running"]
    /\ UNCHANGED << reported, slotFreed >>

\* The executor of file e from `if (!testMode)` on: it spawns the process and
\* registers the handlers, or in test mode resolves at once.
Dispatch(e) ==
    IF ~testMode
    THEN /\ concurrency' = concurrency + 1
         /\ slotTaken' = [slotTaken EXCEPT ![e] = @ + 1]
         /\ cwebpArgs' = Append(Append(cwebpArgs, OutputArg(e)), InputArg(e))
         /\ procArgs' = [procArgs EXCEPT ![e] = cwebpArgs']
         /\ spawnCount' = [spawnCount EXCEPT ![e] = @ + 1]
         /\ pc' = [pc EXCEPT ![e] = "running"]
         /\ UNCHANGED << reported, slotFreed >>
    ELSE /\ Resolve(e, Undefined)
         /\ pc' = [pc EXCEPT ![e] = "done"]
         /\ UNCHANGED << concurrency, cwebpArgs, procArgs, countVars >>

\* The gate's test of the counter, in the executor and in waitForTruth's func.
GateClosed == concurrency >= MAX_CONCURRENT_FILES

\* inputFiles.map() calls the executor of the next file, which runs until its
\* first await: past the gate into Dispatch, or into waitForTruth, whose first
\* retry() finds the predicate false and starts the timer.
Executor(e) ==
    /\ mainPc = "map"
    /\ e = nextFile
    /\ e <= inputFiles
    /\ nextFile' = e + 1
    /\ IF GateClosed
       THEN /\ pc' = [pc EXCEPT ![e] = "gate"]
            /\ UNCHANGED << concurrency, cwebpArgs, procArgs, reported, countVars >>
       ELSE Dispatch(e)
    /\ UNCHANGED << env, legacyTimers, mainPc, testMode, inputFiles, microtasks,
                    draining, lastEvent, classifierArg, classifierRet,
                    enumVars >>

\* map() has called every executor: main() returns Promise.all(...).
MapDone ==
    /\ mainPc = "map"
    /\ nextFile > inputFiles
    /\ mainPc' = "awaiting"
    /\ UNCHANGED << env, legacyTimers, testMode, inputFiles, nextFile, concurrency,
                    pc, microtasks, draining, cwebpArgs, procArgs, reported,
                    lastEvent, classifierArg, classifierRet,
                    countVars, enumVars >>

EventLoop == mainPc \in {"awaiting", "resolved"}

\* A timer callback may start when no microtask is pending.  A runtime that
\* runs every expired timer of a list before it runs microtasks lets the
\* callbacks of several waiters run back to back, their continuations pending.
TimerMayRun == microtasks = << >> \/ (legacyTimers /\ ~draining)

\* waitAsync's timer fires for a waiting file and retry() runs func().  When
\* func() is false the timer is started again and nothing has changed; when
\* it is true the gate's promise resolves and the executor's continuation is
\* queued.
Poll(e) ==
    /\ EventLoop
    /\ pc[e] = "gate"
    /\ TimerMayRun
    /\ ~GateClosed
    /\ pc' = [pc EXCEPT ![e] = "admitted"]
    /\ microtasks' = Append(microtasks, e)
    /\ UNCHANGED << env, legacyTimers, mainPc, testMode, inputFiles, nextFile,
                    concurrency, draining, cwebpArgs, procArgs, reported,
                    lastEvent, classifierArg, classifierRet,
                    countVars, enumVars >>

\* The executor of a file resumes after `await waitForTruth(...)`.
Continue(e) ==
    /\ EventLoop
    /\ microtasks # << >>
    /\ e = Head(microtasks)
    /\ microtasks' = Tail(microtasks)
    /\ draining' = (microtasks' # << >>)
    /\ Dispatch(e)
    /\ UNCHANGED << env, legacyTimers, mainPc, testMode, inputFiles, nextFile,
                    lastEvent, classifierArg, classifierRet,
                    enumVars >>

Close_RetryOnError(e, code) ==
    /\ mainPc \in {"awaiting", "resolved"}
    /\ pc[e] = "running"
    /\ microtasks = << >>
    /\ IF code # 0 /\ spawnCount[e] < 2
       THEN /\ spawnCount' = [spawnCount EXCEPT ![e] = @ + 1]
            /\ UNCHANGED << pc, concurrency, reported, slotTaken, slotFreed >>
       ELSE /\ pc' = [pc EXCEPT ![e] = "closed"]
            /\ concurrency' = concurrency - 1
            /\ slotFreed' = [slotFreed EXCEPT ![e] = @ + 1]
            /\ Resolve(e, Undefined)
            /\ UNCHANGED << spawnCount, slotTaken >>
    /\ lastEvent' = CloseEvent(e, code, TextBefore(e, lastEvent))
    /\ UNCHANGED << env, legacyTimers, mainPc, testMode, inputFiles, nextFile,
                    microtasks, draining, cwebpArgs, procArgs,
                    classifierArg, classifierRet,
                    enumVars >>

Close_NoRelease(e, code) ==
    /\ mainPc \in {"awaiting", "resolved"}
    /\ pc[e] = "running"
    /\ microtasks = << >>
    /\ pc' = [pc EXCEPT ![e] = "closed"]
    /\ Resolve(e, Undefined)
    /\ UNCHANGED countVars
    /\ lastEvent' = CloseEvent(e, code, TextBefore(e, lastEvent))
    /\ UNCHANGED << env, legacyTimers, mainPc, testMode, inputFiles, nextFile,
                    concurrency, microtasks, draining, cwebpArgs, procArgs, classifierArg, classifierRet,
                    enumVars >>

Close_ReturnOnError(e, code) ==
    /\ mainPc \in {"awaiting", "resolved"}
    /\ pc[e] = "running"
    /\ microtasks = << >>
    /\ pc' = [pc EXCEPT ![e] = "closed"]
    /\ IF code # 0
       THEN UNCHANGED << concurrency, reported, slotFreed >>
       ELSE /\ concurrency' = concurrency - 1
            /\ slotFreed' = [slotFreed EXCEPT ![e] = @ + 1]
            /\ Resolve(e, Undefined)
    /\ UNCHANGED << spawnCount, slotTaken >>
    /\ lastEvent' = CloseEvent(e, code, TextBefore(e, lastEvent))
    /\ UNCHANGED << env, legacyTimers, mainPc, testMode, inputFiles, nextFile,
                    microtasks, draining, cwebpArgs, procArgs,
                    classifierArg, classifierRet,
                    enumVars >>

\* proc.on("close", (code) => ...): a non-zero code is logged as an error,
\* then the slot is given back and resolve() is called without an argument.
Close(e, code) ==
    /\ EventLoop
    /\ pc[e] = "running"
    /\ microtasks = << >>
    /\ pc' = [pc EXCEPT ![e] = "closed"]
    /\ concurrency' = concurrency - 1
    /\ slotFreed' = [slotFreed EXCEPT ![e] = @ + 1]
    /\ Resolve(e, Undefined)
    /\ UNCHANGED << spawnCount, slotTaken >>
    /\ lastEvent' = CloseEvent(e, code, TextBefore(e, lastEvent))
    /\ UNCHANGED << env, legacyTimers, mainPc, testMode, inputFiles, nextFile,
                    microtasks, draining, cwebpArgs, procArgs,
                    classifierArg, classifierRet,
                    enumVars >>

\* proc.stderr.on("data", (_err) => ...): the handler returns unless the
\* classifier's result is truthy.
StderrData(e, chunk) ==
    /\ EventLoop
    /\ pc[e] = "running"
    /\ microtasks = << >>
    /\ LET err == Trim(chunk)
       IN  /\ lastEvent' = StderrEvent(e, err)
           /\ IF hack_IsErrorAnError(ClassifierArgument(err)) # "true"
              THEN UNCHANGED << concurrency, reported, slotFreed >>
              ELSE /\ concurrency' = concurrency - 1
                   /\ slotFreed' = [slotFreed EXCEPT ![e] = @ + 1]
                   /\ Resolve(e, err)
    /\ UNCHANGED << spawnCount, slotTaken >>
    /\ UNCHANGED << env, legacyTimers, mainPc, testMode, inputFiles, nextFile, pc,
                    microtasks, draining, cwebpArgs, procArgs,
                    classifierArg, classifierRet,
                    enumVars >>

BatchResolve_Race ==
    /\ mainPc = "awaiting"
    /\ \E e \in 1..inputFiles : reported[e] # << >>
    /\ mainPc' = "resolved"
    /\ UNCHANGED << env, legacyTimers, testMode, inputFiles, nextFile, concurrency,
                    pc, microtasks, draining, cwebpArgs, procArgs, reported,
                    lastEvent, classifierArg, classifierRet,
                    countVars, enumVars >>

\* Promise.all: every file's _resolve has been called, so main()'s promise
\* resolves and "Script completed." is logged.
BatchResolve ==
    /\ mainPc = "awaiting"
    /\ \A e \in 1..inputFiles : reported[e] # << >>
    /\ mainPc' = "resolved"
    /\ UNCHANGED << env, legacyTimers, testMode, inputFiles, nextFile, concurrency,
                    pc, microtasks, draining, cwebpArgs, procArgs, reported,
                    lastEvent, classifierArg, classifierRet,
                    countVars, enumVars >>

Next ==
    \/ MainSetup
    \/ \E e \in Files : Executor(e)
    \/ MapDone
    \/ \E e \in Files : Poll(e)
    \/ \E e \in Files : Continue(e)
    \/ \E e \in Files : \E code \in ExitCodes : Close(e, code)
    \/ \E e \in Files : \E chunk \in StderrChunks : StderrData(e, chunk)
    \/ BatchResolve

Spec == Init /\ [][Next]_vars

\* A step the script or a cwebp process is bound to take: the event loop runs
\* a callback or continuation that is ready, and a running process closes.
\* Output on stderr is never owed.
Progress ==
    \/ MainSetup
    \/ MapDone
    \/ BatchResolve
    \/ \E e \in Files :
         \/ Executor(e)
         \/ Poll(e)
         \/ Continue(e)
         \/ \E code \in ExitCodes : Close(e, code)

Fairness == WF_vars(Progress)

FairSpec == Spec /\ Fairness

\* ------------------------------------------- the classifier on its own
Alphabet == {"4", ".", " ", "e", "-"}

BoundedTexts == UNION {[1..k -> Alphabet] : k \in 0..MaxTextLen}

ClassifierInputs == BoundedTexts \cup {Str_CannotOpen, Str_Psnr, Trim(Str_Psnr)}

ClassifierInit ==
    /\ env = [h |-> TRUE, t |-> FALSE, c |-> 0, inputExists |-> TRUE,
              outputExists |-> TRUE, cwebpExists |-> TRUE, compatible |-> 0]
    /\ legacyTimers = FALSE
    /\ mainPc = "start"
    /\ testMode = FALSE
    /\ inputFiles = 0
    /\ nextFile = 1
    /\ concurrency = 0
    /\ pc = [e \in Files |-> "new"]
    /\ microtasks = << >>
    /\ draining = FALSE
    /\ cwebpArgs = BASE_WEBP_SETTINGS
    /\ procArgs = [e \in Files |-> << >>]
    /\ reported = [e \in Files |-> << >>]
    /\ lastEvent = NoEvent
    /\ spawnCount = [e \in Files |-> 0]
    /\ slotTaken = [e \in Files |-> 0]
    /\ slotFreed = [e \in Files |-> 0]
    /\ classifierArg \in ClassifierInputs
    /\ classifierRet = "pending"
    /\ dirEntries = << >>
    /\ enumerated = NotEnumerated

\* One call hack_IsErrorAnError(classifierArg).
Classify ==
    /\ classifierRet = "pending"
    /\ classifierRet' = hack_IsErrorAnError(classifierArg)
    /\ UNCHANGED << env, legacyTimers, mainPc, testMode, inputFiles, nextFile,
                    concurrency, pc, microtasks, draining, cwebpArgs, procArgs,
                    reported, lastEvent, classifierArg,
                    countVars, enumVars >>

ClassifierSpec == ClassifierInit /\ [][Classify]_vars

\* ---------------------------------------------------------------- claims
Resolved == mainPc = "resolved"

Enumerated == 1..inputFiles

Spawned(e) == pc[e] \in {"running", "closed"}

\* The classifier policy as the design states it: the text after the last
\* space contains a decimal point and is read as a number.
RECURSIVE LastSpaceToken(_)
LastSpaceToken(s) ==
    IF \E k \in 1..Len(s) : s[k] = " " THEN LastSpaceToken(Tail(s)) ELSE s

PolicyBenign(text) ==
    LET tok == LastSpaceToken(text)
    IN  (\E k \in 1..Len(tok) : tok[k] = ".") /\ ParseFloatIsNumber(tok)

\* C1: at every point of a batch run the number of converter processes that
\* have been spawned and have not closed is at most MAX_CONCURRENT_FILES.
C1_AtMostLimitRunning ==
    Cardinality({e \in Files : pc[e] = "running"}) <= MAX_CONCURRENT_FILES

\* C2: the batch promise has resolved only when no enumerated file is still
\* before or at the admission gate, and none has a spawned process without a
\* recorded outcome.
C2_ResolvedOnlyAfterAll ==
    Resolved =>
        \A e \in Enumerated :
            /\ pc[e] \notin {"new", "gate", "admitted"}
            /\ reported[e] # << >>

C2_Witness ==
    /\ Resolved
    /\ ~testMode
    /\ inputFiles > MAX_CONCURRENT_FILES
    /\ \A e \in Enumerated : pc[e] = "closed"

\* C3: the resolve wrapper of a file never runs twice, whatever 'close' and
\* stderr 'data' events its process emits, and when the batch has resolved it
\* has run exactly once for each enumerated file and for no other.
C3_ExactlyOneOutcome ==
    /\ \A e \in Files : Len(reported[e]) <= 1
    /\ \A e \in Files \ Enumerated : reported[e] = << >>
    /\ Resolved => \A e \in Enumerated : Len(reported[e]) = 1

C3_Witness ==
    /\ Resolved
    /\ lastEvent.kind = "close"
    /\ lastEvent.text # Undefined
    /\ ~PolicyBenign(lastEvent.text)
    /\ Len(reported[lastEvent.file]) = 1

\* C4: under fair scheduling, with every process closing, whenever files are
\* suspended at the gate every enumerated file is later spawned and closed,
\* and the batch resolves.
C4_GateNeverDeadlocks ==
    (\E e \in Files : pc[e] = "gate")
        ~> (Resolved /\ \A e \in Enumerated : pc[e] = "closed")

C4_Witness ==
    /\ Resolved
    /\ inputFiles > MAX_CONCURRENT_FILES
    /\ pc[inputFiles] = "closed"
    /\ lastEvent = CloseEvent(inputFiles, 0, Undefined)

\* C5: after a file's process has closed with a non-zero exit code, or has
\* written stderr text that the policy classifies as an error, every
\* enumerated file is still spawned and finalized and the batch resolves.
C5_NoFailFast ==
    ( \/ (lastEvent.kind = "close" /\ lastEvent.code # 0)
      \/ (lastEvent.kind = "stderr" /\ ~PolicyBenign(lastEvent.text)) )
        ~> (Resolved /\ \A e \in Enumerated : pc[e] = "closed" /\ reported[e] # << >>)

C5_Witness ==
    /\ lastEvent.kind = "close"
    /\ lastEvent.code # 0
    /\ \E e \in Enumerated : pc[e] = "gate"
    /\ \E e \in Enumerated : pc[e] = "running"

\* C6: every process is spawned with the fixed settings followed by its own
\* file's output and input arguments and nothing else, and the fixed template
\* stays as it was written.
C6_ArgsAreTemplatePlusOwnPaths ==
    /\ cwebpArgs = BASE_WEBP_SETTINGS
    /\ \A e \in Files :
         Spawned(e) => procArgs[e] = BASE_WEBP_SETTINGS \o << OutputArg(e), InputArg(e) >>

\* C7: when stderr text that the policy classifies as an error has arrived
\* for a running file, the file is finalized with that text at that event
\* (its resolve wrapper has been called with it), without waiting for 'close'.
C7_ErrorTextFinalizes ==
    (lastEvent.kind = "stderr" /\ ~PolicyBenign(lastEvent.text))
        => \E k \in 1..Len(reported[lastEvent.file]) :
               reported[lastEvent.file][k] = lastEvent.text

\* C8: a file whose process closed with a non-zero exit code has no success
\* report: its resolve wrapper was never called to log "Generated".
C8_NonZeroExitNotGenerated ==
    (lastEvent.kind = "close" /\ lastEvent.code # 0)
        => \A k \in 1..Len(reported[lastEvent.file]) :
               Truthy(reported[lastEvent.file][k])

\* C9: a file whose process closed with code 0 after benign stderr text is
\* reported as generated with warnings, with that text.
C9_BenignTextIsWarning ==
    ( /\ lastEvent.kind = "close"
      /\ lastEvent.code = 0
      /\ lastEvent.text # Undefined
      /\ PolicyBenign(lastEvent.text) )
        => reported[lastEvent.file] = << lastEvent.text >>

\* C10: the classifier returns false exactly for a text whose last
\* space-delimited token contains a decimal point and parses as a float, and
\* returns true for every other text.
C10_ClassifierFalseOrTrue ==
    (classifierRet # "pending") =>
        classifierRet = (IF PolicyBenign(classifierArg) THEN "false" ELSE "true")

\* C11: in test mode no process is ever spawned and the slot counter never
\* changes, no file waits at the gate, and when the batch has resolved every
\* enumerated file has exactly one report, the plain "Generated" one.
C11_DryRunSpawnsNothing ==
    testMode =>
        /\ concurrency = 0
        /\ \A e \in Files :
             /\ spawnCount[e] = 0 /\ slotTaken[e] = 0 /\ slotFreed[e] = 0
             /\ pc[e] \in {"new", "done"}
             /\ procArgs[e] = << >>
        /\ \A e \in Enumerated : e < nextFile => reported[e] = << Undefined >>
        /\ Resolved => \A e \in Enumerated : reported[e] = << Undefined >>

C11_Witness ==
    /\ testMode
    /\ Resolved
    /\ inputFiles > MAX_CONCURRENT_FILES
    /\ \A e \in Enumerated : pc[e] = "done"

\* C12: when -c N is given, never more than N converter processes are
\* running at once.
C12_FlagBoundsRunning ==
    env.c # 0 => Cardinality({e \in Files : pc[e] = "running"}) <= env.c

ConfigurationError ==
    ~env.inputExists \/ ~env.outputExists \/ ~env.cwebpExists

\* C14: when the input directory, the output directory or the converter is
\* missing, main() returns before the listing is read: no file is enumerated
\* or reported, no process is spawned and the slot counter stays untouched,
\* with and without -t.
C14_ConfigErrorIsFatal ==
    ConfigurationError =>
        /\ mainPc \in {"start", "returned"}
        /\ inputFiles = 0
        /\ nextFile = 1
        /\ concurrency = 0
        /\ microtasks = << >>
        /\ lastEvent = NoEvent
        /\ \A e \in Files :
             /\ pc[e] = "new"
             /\ reported[e] = << >>
             /\ procArgs[e] = << >>
             /\ spawnCount[e] = 0 /\ slotTaken[e] = 0 /\ slotFreed[e] = 0

C14_Witness ==
    /\ mainPc = "returned"
    /\ ~env.h
    /\ env.t
    /\ env.inputExists /\ env.outputExists /\ ~env.cwebpExists
    /\ env.compatible > 0

\* C15: the slot counter stays between 0 and MAX_CONCURRENT_FILES in every
\* reachable state.
C15_CounterInRange ==
    0 <= concurrency /\ concurrency <= MAX_CONCURRENT_FILES

\* C16: a file takes its slot at most once, and before its process is
\* spawned; the slot is given back at most once, only after it was taken, and
\* exactly once by the time the process has closed, however many stderr
\* chunks the process wrote before.
C16_SlotReleasedOnce ==
    \A e \in Files :
        /\ slotTaken[e] <= 1
        /\ slotFreed[e] <= slotTaken[e]
        /\ spawnCount[e] > 0 => slotTaken[e] = 1
        /\ pc[e] = "closed" => slotFreed[e] = 1
        /\ (Resolved /\ slotTaken[e] = 1) => slotFreed[e] = 1

C16_Witness ==
    /\ lastEvent.kind = "close"
    /\ lastEvent.code # 0
    /\ lastEvent.text = Trim(Str_CannotOpen)
    /\ slotTaken[lastEvent.file] = 1
    /\ slotFreed[lastEvent.file] = 1

\* C17: when the batch promise has resolved the slot counter is 0 and every
\* slot taken has been given back.
C17_NoLeakAtResolve ==
    Resolved =>
        /\ concurrency = 0
        /\ \A e \in Files : slotTaken[e] = slotFreed[e]

C17_Witness ==
    /\ Resolved
    /\ ~testMode
    /\ inputFiles > MAX_CONCURRENT_FILES
    /\ lastEvent.kind = "close" /\ lastEvent.code # 0
    /\ \A e \in Enumerated : slotTaken[e] = 1 /\ slotFreed[e] = 1

\* C18: no file's process is spawned a second time, none is spawned for a
\* file that was not enumerated, and outside test mode every enumerated file
\* has been spawned exactly once when the batch has resolved.
C18_OneSpawnPerFile ==
    /\ \A e \in Files : spawnCount[e] <= 1
    /\ \A e \in Files \ Enumerated : spawnCount[e] = 0
    /\ \A e \in Files : pc[e] = "closed" => spawnCount[e] = 1
    /\ (Resolved /\ ~testMode) => \A e \in Enumerated : spawnCount[e] = 1

C18_Witness ==
    /\ Resolved
    /\ ~testMode
    /\ inputFiles > MAX_CONCURRENT_FILES
    /\ \E e \in Enumerated : reported[e] # << >> /\ lastEvent = CloseEvent(e, 1, Undefined)
    /\ \A e \in Enumerated : spawnCount[e] = 1

\* C19: outside test mode the slot counter equals the number of processes
\* spawned and not yet closed, and a file whose process is still running has
\* neither given its slot back nor been reported.
C19_CounterCountsRunning ==
    ~testMode =>
        /\ concurrency = Cardinality({e \in Files : pc[e] = "running"})
        /\ \A e \in Files :
             pc[e] = "running" => slotFreed[e] = 0 /\ reported[e] = << >>

C19_Witness ==
    /\ ~testMode
    /\ lastEvent.kind = "stderr"
    /\ ~PolicyBenign(lastEvent.text)
    /\ pc[lastEvent.file] = "running"
    /\ concurrency = MAX_CONCURRENT_FILES
    /\ \E e \in Enumerated : pc[e] = "closed"

\* -------------------------------------------------- the filter on its own
Name_a_png == << "a",".","p","n","g" >>
Name_b_txt == << "b",".","t","x","t" >>
Name_c_jpeg == << "c",".","j","p","e","g" >>
Name_d_JPG == << "d",".","J","P","G" >>
Name_e_p == << "e",".","p" >>
Name_f_pn == << "f",".","p","n" >>
Name_g_dot == << "g","." >>
Name_readme == << "r","e","a","d","m","e" >>

ExampleNames ==
    { Name_a_png, Name_b_txt, Name_c_jpeg, Name_d_JPG, Name_e_p, Name_f_pn,
      Name_g_dot, Name_readme }

NameAlphabet == {"p", "g", ".", "P"}

\* Generated names; readdirSync never yields "", "." or "..".
BoundedNames ==
    UNION {[1..k -> NameAlphabet] : k \in 1..MaxNameLen} \ { << "." >>, << ".", "." >> }

Listings ==
    {<< >>} \cup {<< a >> : a \in BoundedNames \cup ExampleNames}
            \cup {<< a, b >> : a \in ExampleNames, b \in ExampleNames}
            \cup {<< Name_a_png, Name_b_txt, Name_c_jpeg >>}

EnumInit ==
    /\ env = [h |-> FALSE, t |-> FALSE, c |-> 0, inputExists |-> TRUE,
              outputExists |-> TRUE, cwebpExists |-> TRUE, compatible |-> 0]
    /\ legacyTimers = FALSE
    /\ mainPc = "start"
    /\ testMode = FALSE
    /\ inputFiles = 0
    /\ nextFile = 1
    /\ concurrency = 0
    /\ pc = [e \in Files |-> "new"]
    /\ microtasks = << >>
    /\ draining = FALSE
    /\ cwebpArgs = BASE_WEBP_SETTINGS
    /\ procArgs = [e \in Files |-> << >>]
    /\ reported = [e \in Files |-> << >>]
    /\ lastEvent = NoEvent
    /\ spawnCount = [e \in Files |-> 0]
    /\ slotTaken = [e \in Files |-> 0]
    /\ slotFreed = [e \in Files |-> 0]
    /\ classifierArg = Undefined
    /\ classifierRet = "pending"
    /\ dirEntries \in Listings
    /\ enumerated = NotEnumerated

\* const inputFiles = fs.readdirSync(inputDirectory).filter(...)
ReadInputDirectory ==
    /\ enumerated = NotEnumerated
    /\ enumerated' = FilterCompatible(dirEntries)
    /\ UNCHANGED << env, legacyTimers, mainPc, testMode, inputFiles, nextFile,
                    concurrency, pc, microtasks, draining, cwebpArgs, procArgs,
                    reported, lastEvent, countVars, classifierArg, classifierRet,
                    dirEntries >>

EnumSpec == EnumInit /\ [][ReadInputDirectory]_vars

\* The extension of a name as the design states it: the part after the last
\* '.', in lower case; a name without '.' has none.
HasWhitelistedExtension(e) ==
    /\ \E k \in 1..Len(e) : e[k] = "."
    /\ LET last == CHOOSE k \in 1..Len(e) :
                       e[k] = "." /\ \A m \in (k + 1)..Len(e) : e[m] # "."
       IN  ToLowerCase(SubSeq(e, last + 1, Len(e))) \in
               { << "p","n","g" >>, << "j","p","g" >>, << "j","p","e","g" >> }

\* C13: the enumerator yields, in directory order, exactly the entries whose
\* extension is png, jpg or jpeg in any letter case.
C13_ExactlyWhitelisted ==
    (enumerated # NotEnumerated) =>
        enumerated = SelectSeq(dirEntries, HasWhitelistedExtension)

====
